---- MODULE Spec2Model ----
(***************************************************************************)
(* Model of the incremental indexing pipeline of the notebook agent        *)
(* (src/embedding.py): the watermark kept in the system_state collection,  *)
(* the note_collection index, the run_pipeline cycle executed on an        *)
(* executor thread, the embedding() loop task and the server lifespan      *)
(* (src/mcp_server.py) that starts and cancels it.                         *)
(* The request handlers follow: search over the index, the kanban card     *)
(* relocation of src/notebook_client.py and the revision history of        *)
(* get_note_snapshots, each under a specification of its own.              *)
(***************************************************************************)
EXTENDS Integers, Sequences, FiniteSets, TLC

\* ------------------------------------------------------------------------
\* Bounds of the model
\* ------------------------------------------------------------------------
MaxDocs == 2
MaxWrites == 2
LongExtra == 1
MaxUsers == 2
MaxRuns == 2
MaxNotes == 2
MaxSaves == 2
MaxLen == 3
MaxLevel == 3
MaxNodes == 2
MaxPosts == 1
MaxLines == 3

\* ------------------------------------------------------------------------
\* Program constants
\* ------------------------------------------------------------------------
batch_size == 100
MinChunkLen == 2
chunk_size == 500
chunk_overlap == 100
\* range(1, 7): the deepest heading level the header split is tried with
max_depth == 6
\* sys.getsizeof of a str of ASCII characters: 49 bytes and one per character
StrOverhead == 49

DocIds == 1..MaxDocs
UserIds == 1..MaxUsers

\* the us_id column of a content row: the account a document belongs to
UserOf(d) == ((d - 1) % MaxUsers) + 1

\* A body with more pieces than one upsert batch holds.
LongBody == [i \in 1..(batch_size + LongExtra) |-> "hello"]

\* A body whose middle piece "a" is shorter than the 2 character cutoff.
GapBody == <<"hello", "a", "world">>

\* co_description values, each given as the sequence of raw texts the
\* secondary split hands to the loop of process_content (final_splits).
Bodies == {<<>>, GapBody, LongBody}

\* the body of the rows that are no notes: the pipeline never reads it
SnapshotBody == <<"hello">>

CoTypes == {"NOTE", "SNAPSHOT"}

NoRow == [co_type |-> "NONE"]

VARIABLES
    db,                \* content table: co_id -> row
    now,               \* clock of the source store
    nwrites,           \* writes the source store has taken
    state_collection,  \* system_state collection: id -> metadata
    note_collection,   \* note_collection index: set of chunk records
    lifespan,          \* server_lifespan position
    taskpc,            \* embedding() task position
    jobs,              \* run_pipeline executions in flight on the executor
    pc,                \* run_pipeline position
    last_run,          \* run_pipeline local
    df,                \* run_pipeline local: fetched rows
    k,                 \* run_pipeline local: position of the delete loop
    ids,               \* run_pipeline local: chunks to store (ids/documents/metadatas)
    i,                 \* run_pipeline local: batch offset
    reads,             \* calls of get_last_run_time in the running cycle
    writes,            \* calls of update_last_run_time in the running cycle
    indexed,           \* per document: the content last indexed, how often, and
                       \* the chunk ids the index held after the first time
    response,          \* what the last search handler handed to its caller
    call,              \* a function applied to given arguments, and its result
    notes,             \* notebook API: the NOTE rows, id -> row
    snapshots,         \* notebook API: the SNAPSHOT rows posted, oldest first
    mv                 \* move_kanban_card_logic: position, locals and result

vars == <<db, now, nwrites, state_collection, note_collection, lifespan, taskpc, jobs,
          pc, last_run, df, k, ids, i, reads, writes, indexed, response,
          call, notes, snapshots, mv>>

store == <<db, now, nwrites>>
locals == <<last_run, df, k, ids, i, reads, writes>>
proc == <<lifespan, taskpc, jobs>>

sync == <<store, locals, proc, state_collection, pc>>
query == <<indexed, response>>
reloc == <<notes, snapshots, mv>>

\* the state of the request handlers, which the sync loop never touches
aux == <<query, call, reloc>>

\* ------------------------------------------------------------------------
\* Timestamps and their string form
\* ------------------------------------------------------------------------
\* str(pd.Timestamp): the text stored in the metadata and bound in the query
TimestampStr(t) == [text |-> t]

\* the datetime MySQL reads back from the bound text
ParseTimestamp(s) == s.text

EpochStr == TimestampStr(0)

\* ------------------------------------------------------------------------
\* State management (system_state collection)
\* ------------------------------------------------------------------------
get_last_run_time(sc) ==
    IF "etl_status" \in DOMAIN sc
    THEN sc["etl_status"].last_run_at
    ELSE EpochStr

update_last_run_time(sc, last_timestamp) ==
    [x \in (DOMAIN sc) \cup {"etl_status"} |->
        IF x = "etl_status"
        THEN [last_run_at |-> TimestampStr(last_timestamp)]
        ELSE sc[x]]

\* ------------------------------------------------------------------------
\* Extract
\* ------------------------------------------------------------------------
RowOf(d) ==
    [co_id |-> d, us_id |-> UserOf(d),
     co_description |-> db[d].co_description,
     co_updated |-> db[d].co_updated]

\* SelectNotes with co_updated >= last_run in the place of co_updated > last_run
SelectNotesSinceOrAt(last_run_time) ==
    {RowOf(d) : d \in {e \in DocIds :
        /\ db[e].co_type = "NOTE"
        /\ db[e].co_updated >= ParseTimestamp(last_run_time)}}

\* SELECT ... FROM content where co_updated > last_run and co_type='NOTE'
SelectNotes(last_run_time) ==
    {RowOf(d) : d \in {e \in DocIds :
        /\ db[e].co_type = "NOTE"
        /\ db[e].co_updated > ParseTimestamp(last_run_time)}}

\* the rows of a result set in any order (the query has no ORDER BY)
Orderings(S) ==
    {s \in [1..Cardinality(S) -> S] :
        \A a, b \in 1..Cardinality(S) : a # b => s[a] # s[b]}

\* pd.DataFrame(): what fetch_notes_from_mysql returns when the query raises
EmptyFrame == <<>>

fetch_notes_from_mysql(last_run_time) ==
    Orderings(SelectNotes(last_run_time)) \cup {EmptyFrame}

\* ------------------------------------------------------------------------
\* Transform
\* ------------------------------------------------------------------------
\* process_content numbering the chunks from the timestamp of the row
process_content_stamped_ids(original_id, user_id, final_splits, created_at) ==
    LET chunk(n) == [id |-> <<original_id, n - 1 + created_at>>,
                     text |-> final_splits[n],
                     original_id |-> original_id,
                     user_id |-> user_id,
                     created_at |-> TimestampStr(created_at)]
        all == [n \in 1..Len(final_splits) |-> chunk(n)]
        keep(c) == ~(Len(c.text) < MinChunkLen)
    IN SelectSeq(all, keep)

\* the loop over enumerate(final_splits): idx counts every split, a split
\* shorter than 2 characters is skipped
process_content(original_id, user_id, final_splits, created_at) ==
    LET chunk(n) == [id |-> <<original_id, n - 1>>,
                     text |-> final_splits[n],
                     original_id |-> original_id,
                     user_id |-> user_id,
                     created_at |-> TimestampStr(created_at)]
        all == [n \in 1..Len(final_splits) |-> chunk(n)]
        keep(c) == ~(Len(c.text) < MinChunkLen)
    IN SelectSeq(all, keep)

RowChunks(row) ==
    process_content(row.co_id, row.us_id, row.co_description, row.co_updated)

\* the loop over df.iterrows() appending every chunk of every row
RECURSIVE TransformFrom(_, _)
TransformFrom(frame, n) ==
    IF n > Len(frame) THEN <<>>
    ELSE RowChunks(frame[n]) \o TransformFrom(frame, n + 1)

TransformAll(frame) == TransformFrom(frame, 1)

Range(s) == {s[n] : n \in DOMAIN s}

\* ------------------------------------------------------------------------
\* Index operations (note_collection)
\* ------------------------------------------------------------------------
\* delete_where removing by chunk id prefix 0 only (the first chunk)
delete_first_only(coll, original_id) ==
    {c \in coll : c.id # <<original_id, 0>>}

\* note_collection.delete(where={"original_id": original_id})
delete_where(coll, original_id) ==
    {c \in coll : c.original_id # original_id}

\* note_collection.upsert(ids=..., documents=..., metadatas=...)
upsert(coll, batch) ==
    {c \in coll : \A b \in batch : b.id # c.id} \cup batch

Min2(a, b) == IF a < b THEN a ELSE b

\* documents[i:end] with end = i + batch_size
Batch(chunks, from) ==
    {chunks[n] : n \in (from + 1)..Min2(from + batch_size, Len(chunks))}

\* df['co_updated'].max()
MaxUpdated(frame) ==
    CHOOSE t \in {frame[n].co_updated : n \in DOMAIN frame} :
        \A n \in DOMAIN frame : frame[n].co_updated <= t

\* ------------------------------------------------------------------------
\* Initial state: empty source table, fresh chroma store, server not started
\* ------------------------------------------------------------------------
\* no document indexed yet
NotIndexed == [runs |-> 0, body |-> <<>>, first |-> {}]

\* no request handled yet
NoResponse == [handler |-> "none", kind |-> "none", cause |-> "none",
               user |-> 0, chunks |-> <<>>]

QueryInit ==
    /\ indexed = [d \in DocIds |-> NotIndexed]
    /\ response = NoResponse

\* no function applied
NoCall == [fn |-> "none"]

\* an id the notebook API has given to no NOTE yet
NoNote == [title |-> "", description |-> <<>>, exists |-> FALSE]

NoteIds == 1..MaxNotes

\* what get_note_by_title returns when no NOTE has the title (None)
NoneNote == [id |-> 0, title |-> "", description |-> <<>>]

\* move_kanban_card_logic not called
MvIdle == [pc |-> "idle", source_title |-> "", target_title |-> "",
           header_text |-> <<>>, source_note |-> NoneNote,
           target_note |-> NoneNote, new_source_html |-> <<>>,
           card_content |-> <<>>, new_target_html |-> <<>>,
           result |-> "none", failed |-> "none", requests |-> <<>>]

\* the notebook API holds no content
RelocInit ==
    /\ notes = [n \in NoteIds |-> NoNote]
    /\ snapshots = <<>>
    /\ mv = MvIdle

SyncInit ==
    /\ db = [d \in DocIds |-> NoRow]
    /\ now = 0
    /\ nwrites = 0
    /\ state_collection = <<>>
    /\ note_collection = {}
    /\ lifespan = "down"
    /\ taskpc = "none"
    /\ jobs = 0
    /\ pc = "idle"
    /\ last_run = EpochStr
    /\ df = EmptyFrame
    /\ k = 1
    /\ ids = <<>>
    /\ i = 0
    /\ reads = 0
    /\ writes = 0

Init ==
    /\ SyncInit
    /\ QueryInit
    /\ call = NoCall
    /\ RelocInit

Executing == {"start", "fetch", "delete", "transform", "upsert", "commit"}

\* ------------------------------------------------------------------------
\* The source store: documents written through the notebook API
\* ------------------------------------------------------------------------
\* POST /api/v1/content (create_note posts a NOTE, _create_snapshot a SNAPSHOT)
\* the row is stamped with the store's clock, which may have moved on since
\* the last write
CreateContent(d, type, body, t) ==
    /\ t \in {now, now + 1} /\ t >= 1
    /\ now' = t
    /\ IF type = "NOTE" THEN body \in Bodies ELSE body = SnapshotBody
    /\ nwrites < MaxWrites
    /\ nwrites' = nwrites + 1
    /\ db[d] = NoRow
    /\ db' = [db EXCEPT ![d] = [co_type |-> type, co_updated |-> t,
                                co_description |-> body]]
    /\ UNCHANGED <<state_collection, note_collection, pc>>
    /\ UNCHANGED <<proc, locals, aux>>

\* PATCH /api/v1/content (update_note_content)
UpdateContent(d, body, t) ==
    /\ t \in {now, now + 1} /\ t >= 1
    /\ now' = t
    /\ nwrites < MaxWrites
    /\ nwrites' = nwrites + 1
    /\ db[d].co_type = "NOTE"
    /\ db' = [db EXCEPT ![d] = [co_type |-> "NOTE", co_updated |-> t,
                                co_description |-> body]]
    /\ UNCHANGED <<state_collection, note_collection, pc>>
    /\ UNCHANGED <<proc, locals, aux>>

\* ------------------------------------------------------------------------
\* run_pipeline, one action per step
\* ------------------------------------------------------------------------
\* last_run = get_last_run_time()
GetLastRun ==
    /\ pc = "start"
    /\ last_run' = get_last_run_time(state_collection)
    /\ reads' = reads + 1
    /\ pc' = "fetch"
    /\ UNCHANGED <<aux, store, state_collection, note_collection, proc, df, k, ids, i, writes>>

\* Fetch stamping the run time into the watermark when nothing was fetched
FetchStampsRun ==
    /\ pc = "fetch"
    /\ \E frame \in fetch_notes_from_mysql(last_run) :
        /\ df' = frame
        /\ IF frame = EmptyFrame
           THEN /\ pc' = "returned"
                /\ jobs' = jobs - 1
                /\ state_collection' = update_last_run_time(state_collection, now)
           ELSE /\ pc' = "delete"
                /\ jobs' = jobs
                /\ state_collection' = state_collection
    /\ k' = 1
    /\ UNCHANGED <<aux, store, note_collection, lifespan, taskpc,
                   last_run, ids, i, reads, writes>>

\* df = fetch_notes_from_mysql(last_run); if df.empty: return
Fetch ==
    /\ pc = "fetch"
    /\ \E frame \in fetch_notes_from_mysql(last_run) :
        /\ df' = frame
        /\ IF frame = EmptyFrame
           THEN /\ pc' = "returned"
                /\ jobs' = jobs - 1
           ELSE /\ pc' = "delete"
                /\ jobs' = jobs
    /\ k' = 1
    /\ UNCHANGED <<aux, store, state_collection, note_collection, lifespan, taskpc,
                   last_run, ids, i, reads, writes>>

\* DeleteOld with the delete call left out
DeleteOldSkipped ==
    /\ pc = "delete"
    /\ k <= Len(df)
    /\ k' = k + 1
    /\ pc' = IF k + 1 > Len(df) THEN "transform" ELSE "delete"
    /\ UNCHANGED <<aux, store, state_collection, note_collection, proc, last_run, df, ids, i,
                   reads, writes>>

\* for original_id in updated_original_ids: note_collection.delete(where=...)
DeleteOld ==
    /\ pc = "delete"
    /\ k <= Len(df)
    /\ note_collection' = delete_where(note_collection, df[k].co_id)
    /\ k' = k + 1
    /\ pc' = IF k + 1 > Len(df) THEN "transform" ELSE "delete"
    /\ UNCHANGED <<aux, store, state_collection, proc, last_run, df, ids, i, reads, writes>>

\* for _, row in df.iterrows(): ... ; if documents: (else the function ends)
Transform ==
    /\ pc = "transform"
    /\ ids' = TransformAll(df)
    /\ i' = 0
    /\ IF TransformAll(df) # <<>>
       THEN /\ pc' = "upsert"
            /\ jobs' = jobs
       ELSE /\ pc' = "returned"
            /\ jobs' = jobs - 1
    /\ UNCHANGED <<aux, store, state_collection, note_collection, lifespan, taskpc,
                   last_run, df, k, reads, writes>>

\* note_collection.upsert(...) of the batch at offset i, and the loop test
UpsertStep ==
    /\ pc = "upsert"
    /\ i < Len(ids)
    /\ note_collection' = upsert(note_collection, Batch(ids, i))
    /\ i' = i + batch_size
    /\ pc' = IF i + batch_size < Len(ids) THEN "upsert" ELSE "commit"
    /\ UNCHANGED <<store, state_collection, proc, last_run, df, k, ids, reads, writes>>

\* UpsertBatch with update_last_run_time moved into the batch loop
UpsertBatchCommitsEach ==
    /\ pc = "upsert"
    /\ i < Len(ids)
    /\ note_collection' = upsert(note_collection, Batch(ids, i))
    /\ state_collection' = update_last_run_time(state_collection, MaxUpdated(df))
    /\ i' = i + batch_size
    /\ pc' = IF i + batch_size < Len(ids) THEN "upsert" ELSE "commit"
    /\ UNCHANGED <<aux, store, proc, last_run, df, k, ids, reads, writes>>

\* one iteration of for i in range(0, len(documents), batch_size)
UpsertBatch ==
    /\ UpsertStep
    /\ UNCHANGED aux

\* update_last_run_time(df['co_updated'].max()), then the function ends
Commit ==
    /\ pc = "commit"
    /\ state_collection' = update_last_run_time(state_collection, MaxUpdated(df))
    /\ writes' = writes + 1
    /\ pc' = "returned"
    /\ jobs' = jobs - 1
    /\ UNCHANGED <<aux, store, note_collection, lifespan, taskpc, last_run, df, k, ids, i, reads>>

\* a chroma call raises: get_or_create_collection or delete
DeleteFail ==
    /\ pc = "delete"
    /\ pc' = "raised_delete"
    /\ jobs' = jobs - 1
    /\ UNCHANGED <<aux, store, state_collection, note_collection, lifespan, taskpc, locals>>

\* UpsertFail with the watermark written on the way out (a finally clause)
UpsertFailCommits ==
    /\ pc = "upsert"
    /\ pc' = "raised_upsert"
    /\ jobs' = jobs - 1
    /\ state_collection' = update_last_run_time(state_collection, MaxUpdated(df))
    /\ UNCHANGED <<aux, store, note_collection, lifespan, taskpc, locals>>

\* note_collection.upsert raises for the batch at offset i
UpsertFail ==
    /\ pc = "upsert"
    /\ pc' = "raised_upsert"
    /\ jobs' = jobs - 1
    /\ UNCHANGED <<aux, store, state_collection, note_collection, lifespan, taskpc, locals>>

\* state_collection.get raises in get_last_run_time
GetLastRunFail ==
    /\ pc = "start"
    /\ pc' = "raised_start"
    /\ jobs' = jobs - 1
    /\ UNCHANGED <<aux, store, state_collection, note_collection, lifespan, taskpc, locals>>

\* state_collection.upsert raises in update_last_run_time
CommitFail ==
    /\ pc = "commit"
    /\ pc' = "raised_commit"
    /\ jobs' = jobs - 1
    /\ UNCHANGED <<aux, store, state_collection, note_collection, lifespan, taskpc, locals>>

Raised == {"raised_start", "raised_delete", "raised_upsert", "raised_commit"}

\* ------------------------------------------------------------------------
\* embedding(): the loop task
\* ------------------------------------------------------------------------
\* the locals of run_pipeline before a call and after it has ended
ClearLocals ==
    /\ last_run' = EpochStr
    /\ df' = EmptyFrame
    /\ k' = 1
    /\ ids' = <<>>
    /\ i' = 0
    /\ reads' = 0
    /\ writes' = 0

\* LoopSubmit without the await: the task goes on to sleep while the call runs
LoopSubmitNoAwait ==
    /\ taskpc = "submit"
    /\ taskpc' = "sleeping"
    /\ jobs' = jobs + 1
    /\ pc' = "queued"
    /\ last_run' = EpochStr
    /\ df' = EmptyFrame
    /\ k' = 1
    /\ ids' = <<>>
    /\ i' = 0
    /\ reads' = 0
    /\ writes' = 0
    /\ UNCHANGED <<aux, store, state_collection, note_collection, lifespan>>

\* await loop.run_in_executor(None, run_pipeline): the call is put in the
\* queue of the default executor and the task waits for its future
LoopSubmit ==
    /\ taskpc = "submit"
    /\ taskpc' = "awaiting"
    /\ jobs' = jobs + 1
    /\ pc' = "queued"
    /\ ClearLocals
    /\ UNCHANGED <<aux, store, state_collection, note_collection, lifespan>>

\* a thread of the executor takes the call from the queue and enters
\* run_pipeline; from here on the future of the call cannot be cancelled
WorkerBegins ==
    /\ pc = "queued"
    /\ pc' = "start"
    /\ UNCHANGED <<aux, store, state_collection, note_collection, lifespan, taskpc,
                   jobs, locals>>

\* run_pipeline returned: the await ends and the task goes on to sleep
LoopReturn ==
    /\ taskpc = "awaiting"
    /\ pc = "returned"
    /\ taskpc' = "sleeping"
    /\ pc' = "idle"
    /\ ClearLocals
    /\ UNCHANGED <<aux, store, state_collection, note_collection, lifespan, jobs>>

\* run_pipeline raised: the exception leaves the await, the while loop and,
\* not being a CancelledError, the coroutine
LoopRaise ==
    /\ taskpc = "awaiting"
    /\ pc \in Raised
    /\ taskpc' = "errored"
    /\ pc' = "idle"
    /\ ClearLocals
    /\ UNCHANGED <<aux, store, state_collection, note_collection, lifespan, jobs>>

\* await asyncio.sleep(5) ends
SleepDone ==
    /\ taskpc = "sleeping"
    /\ taskpc' = "submit"
    /\ UNCHANGED <<aux, store, state_collection, note_collection, lifespan, jobs, pc, locals>>

\* ------------------------------------------------------------------------
\* server_lifespan and the process
\* ------------------------------------------------------------------------
\* task = asyncio.create_task(embedding())
Startup ==
    /\ lifespan = "down"
    /\ lifespan' = "serving"
    /\ taskpc' = "submit"
    /\ pc' = "idle"
    /\ jobs' = 0
    /\ ClearLocals
    /\ UNCHANGED <<aux, store, state_collection, note_collection>>

\* the code after the yield starts: await eureka_client.stop_async(), during
\* which the embedding task keeps running
Shutdown ==
    /\ lifespan = "serving"
    /\ lifespan' = "stopped"
    /\ UNCHANGED <<aux, store, state_collection, note_collection, taskpc, jobs, pc, locals>>

\* task.cancel(), and the turn of the event loop in which the
\* CancelledError is delivered at the await the task is suspended in and
\* ends the task. Cancelling the task cancels the future it waits for: a
\* call still in the queue of the executor is dropped and run_pipeline is
\* never entered; a call a thread has begun is not interrupted.
\* server_lifespan waits in await task
CancelTask ==
    /\ lifespan = "stopped"
    /\ taskpc \in {"submit", "awaiting", "sleeping"}
    /\ taskpc' = "cancelled"
    /\ IF taskpc = "awaiting" /\ pc = "queued"
       THEN /\ pc' = "idle"
            /\ jobs' = jobs - 1
       ELSE /\ pc' = pc
            /\ jobs' = jobs
    /\ UNCHANGED <<aux, store, state_collection, note_collection, lifespan, locals>>

\* try: await task  except asyncio.CancelledError: pass, once the task has
\* ended: server_lifespan finishes, or, for a task that ended with another
\* exception, await task raises that exception out of it
AwaitTask ==
    /\ lifespan = "stopped"
    /\ taskpc \in {"cancelled", "errored"}
    /\ lifespan' = IF taskpc = "errored" THEN "failed" ELSE "closed"
    /\ UNCHANGED <<aux, store, state_collection, note_collection, taskpc, jobs, pc, locals>>

\* the interpreter exits once the executor threads have ended
ProcessExit ==
    /\ lifespan \in {"closed", "failed"}
    /\ jobs = 0
    /\ lifespan' = "down"
    /\ taskpc' = "none"
    /\ pc' = "idle"
    /\ ClearLocals
    /\ UNCHANGED <<aux, store, state_collection, note_collection, jobs>>

\* the process is killed: a running cycle stops where it is
Crash ==
    /\ lifespan # "down"
    /\ lifespan' = "down"
    /\ taskpc' = "none"
    /\ jobs' = 0
    /\ pc' = IF pc \in Executing THEN "crashed"
             ELSE IF pc = "queued" THEN "idle" ELSE pc
    /\ UNCHANGED <<aux, store, state_collection, note_collection, locals>>

\* ------------------------------------------------------------------------
\* Request handlers that write the system_state collection
\* ------------------------------------------------------------------------
PatId == "jti_1_x"

\* add_pat_jti (create_pat_token)
AddPatJti ==
    /\ lifespan = "serving"
    /\ state_collection' =
         [x \in (DOMAIN state_collection) \cup {PatId} |->
            IF x = PatId THEN [sub |-> "1", jti |-> "x"] ELSE state_collection[x]]
    /\ UNCHANGED <<aux, store, note_collection, proc, pc, locals>>

\* delete_pat_jti(1, "x"): state_collection.delete(where={"sub": ...,
\* "jti": ...}). What a where of two keys does is decided by the chromadb
\* the server runs with, which the repository does not pin: it deletes the
\* entries that match both keys, or it refuses the where (validate_where
\* raises ValueError) and deletes nothing
DeletePatJti ==
    /\ lifespan = "serving"
    /\ \E refused \in BOOLEAN :
          state_collection' =
            IF refused THEN state_collection
            ELSE LET kept == {x \in DOMAIN state_collection :
                                ~(/\ "sub" \in DOMAIN state_collection[x]
                                  /\ state_collection[x].sub = "1"
                                  /\ state_collection[x].jti = "x")}
                 IN  [x \in kept |-> state_collection[x]]
    /\ UNCHANGED <<aux, store, note_collection, proc, pc, locals>>

\* run_pipeline and the loop that calls it
Pipeline ==
    \/ GetLastRun
    \/ Fetch
    \/ DeleteOld
    \/ Transform
    \/ UpsertBatch
    \/ Commit
    \/ GetLastRunFail
    \/ DeleteFail
    \/ UpsertFail
    \/ CommitFail
    \/ LoopSubmit
    \/ WorkerBegins
    \/ LoopReturn
    \/ LoopRaise
    \/ SleepDone
    \/ Startup

\* The pipeline under writes to the source store and kills of the process
Next ==
    \/ \E d \in DocIds, type \in CoTypes, body \in Bodies \cup {SnapshotBody},
          t \in {now, now + 1} : CreateContent(d, type, body, t)
    \/ \E d \in DocIds, body \in Bodies, t \in {now, now + 1} : UpdateContent(d, body, t)
    \/ Pipeline
    \/ Crash

Spec == Init /\ [][Next]_vars

\* The pipeline under the server's shutdown and the request handlers that
\* write the system_state collection, with notes created in the store in
\* the order of their ids
LifeNext ==
    \/ \E d \in DocIds, body \in Bodies, t \in {now, now + 1} :
          /\ \A e \in DocIds : e < d => db[e] # NoRow
          /\ CreateContent(d, "NOTE", body, t)
    \/ Pipeline
    \/ Shutdown
    \/ CancelTask
    \/ AwaitTask
    \/ ProcessExit
    \/ AddPatJti
    \/ DeletePatJti

LifeSpec == Init /\ [][LifeNext]_vars

\* ------------------------------------------------------------------------
\* Observations used by the properties
\* ------------------------------------------------------------------------
\* the persisted watermark as a timestamp
Watermark == ParseTimestamp(get_last_run_time(state_collection))

\* the chunks note_collection.delete(where={"original_id": d}) selects
IndexChunks(d) == {c \in note_collection : c.original_id = d}

ChunkSet(row) == Range(RowChunks(row))

FullyUpserted(row) == ChunkSet(row) \subseteq note_collection

CycleEnded == pc \in {"returned"} \cup Raised

\* ------------------------------------------------------------------------
\* C1: when the upsert of a batch fails in a cycle, the persisted watermark
\* after the cycle equals the watermark the cycle read at its start.
\* ------------------------------------------------------------------------
C1_WatermarkSafety ==
    pc = "raised_upsert" => get_last_run_time(state_collection) = last_run

\* a cycle whose second batch failed after the first one was stored
C1_Witness ==
    /\ pc = "raised_upsert"
    /\ i >= batch_size
    /\ \E n \in DOMAIN ids : ids[n] \in note_collection

\* ------------------------------------------------------------------------
\* C2: in every state, also the one a crash or a failure inside a cycle
\* leaves, the watermark is not greater than the updatedAt of any pulled
\* row whose chunks are not all in the index, and a fetch with the
\* persisted watermark pulls that document again.
\* ------------------------------------------------------------------------
C2_WatermarkNotPastUnindexed ==
    \A n \in DOMAIN df :
        \/ /\ ~(Watermark > df[n].co_updated)
           /\ \E r \in SelectNotes(get_last_run_time(state_collection)) :
                 r.co_id = df[n].co_id
        \/ FullyUpserted(df[n])

\* a crash between two batches: part of the chunks stored, the rest not
C2_Witness ==
    /\ pc = "crashed"
    /\ i >= batch_size
    /\ i < Len(ids)
    /\ \E n \in DOMAIN df : ~FullyUpserted(df[n])

\* ------------------------------------------------------------------------
\* C3: after a cycle that reached Commit, for every document of the cycle
\* the chunk ids the index holds under its original_id are exactly the ids
\* process_content produced from the content fetched in the cycle.
\* ------------------------------------------------------------------------
C3_NoStaleChunk ==
    (pc = "returned" /\ writes = 1) =>
        \A n \in DOMAIN df :
            {c.id : c \in IndexChunks(df[n].co_id)} = {c.id : c \in ChunkSet(df[n])}

\* a second committed cycle that indexed a changed note with the short body
C3_Witness ==
    /\ pc = "returned"
    /\ writes = 1
    /\ last_run # EpochStr
    /\ \E n \in DOMAIN df :
        /\ df[n].co_description = GapBody
        /\ {c.id : c \in IndexChunks(df[n].co_id)} = {<<df[n].co_id, 0>>, <<df[n].co_id, 2>>}

\* ------------------------------------------------------------------------
\* C4: the old chunks of a fetched document are deleted before any new one
\* is stored: in every state the chunks a query sees for one document all
\* come from one chunking (one revision and one body), possibly none.
\* ------------------------------------------------------------------------
C4_OneChunkingVisible ==
    \A d \in DocIds :
        LET seen == IndexChunks(d)
        IN \E body \in Bodies, t \in 0..now :
              \A c \in seen :
                  /\ c.created_at = TimestampStr(t)
                  /\ (c.id[2] + 1) \in DOMAIN body
                  /\ body[c.id[2] + 1] = c.text

\* between the two steps: the changed note was indexed before, its old
\* chunks are gone and the new ones are not stored yet
C4_Witness ==
    /\ pc = "upsert"
    /\ i = 0
    /\ last_run # EpochStr
    /\ \E n \in DOMAIN df :
        /\ IndexChunks(df[n].co_id) = {}
        /\ ChunkSet(df[n]) # {}
        /\ df[n].co_updated > 1

\* ------------------------------------------------------------------------
\* C5: at the end of every cycle, committed or aborted, the index holds for
\* each fetched document the complete chunk set of one chunking or nothing.
\* ------------------------------------------------------------------------
C5_ReplacedAsUnit ==
    CycleEnded =>
        \A n \in DOMAIN df :
            \/ IndexChunks(df[n].co_id) = {}
            \/ \E body \in Bodies, t \in 0..now :
                  IndexChunks(df[n].co_id) =
                      Range(process_content(df[n].co_id, df[n].us_id, body, t))

\* ------------------------------------------------------------------------
\* C6: after a cycle that fetched documents and in which no step failed,
\* the watermark equals the maximum co_updated of the fetched documents.
\* ------------------------------------------------------------------------
C6_CommitMax ==
    (pc = "returned" /\ df # EmptyFrame) => Watermark = MaxUpdated(df)

\* ------------------------------------------------------------------------
\* C7: a cycle ended by a failed delete or upsert never stops the loop:
\* while the server keeps serving, the step the embedding task takes on
\* that failure leaves it alive, on its way to the sleep and the next cycle.
\* ------------------------------------------------------------------------
C7_LoopSurvivesFailure ==
    [][(/\ taskpc = "awaiting"
        /\ pc \in {"raised_delete", "raised_upsert"}
        /\ lifespan' = "serving"
        /\ taskpc' # taskpc)
       => taskpc' = "sleeping"]_vars

\* ------------------------------------------------------------------------
\* C8: once the shutdown part of server_lifespan has finished, no cycle is
\* executing.
\* ------------------------------------------------------------------------
C8_NoCycleAfterShutdown ==
    lifespan \in {"closed", "failed"} => pc \notin Executing

\* ------------------------------------------------------------------------
\* C9: a cycle whose extraction returns no document ends without writing
\* the watermark and without deleting or storing a chunk.
\* ------------------------------------------------------------------------
C9_EmptyCycleNoChange ==
    /\ [](pc = "returned" /\ df = EmptyFrame =>
            /\ writes = 0
            /\ get_last_run_time(state_collection) = last_run)
    /\ [][(pc = "fetch" /\ pc' = "returned") =>
            /\ df' = EmptyFrame
            /\ note_collection' = note_collection
            /\ state_collection' = state_collection]_vars

\* an empty cycle although the table holds a newer row that is no note and
\* an indexed note that is not newer than the watermark
C9_Witness ==
    /\ pc = "returned"
    /\ df = EmptyFrame
    /\ reads = 1
    /\ note_collection # {}
    /\ \E d \in DocIds : db[d].co_type = "SNAPSHOT" /\ db[d].co_updated > Watermark
    /\ \E d \in DocIds : db[d].co_type = "NOTE" /\ db[d].co_updated <= Watermark

\* ------------------------------------------------------------------------
\* C10: the watermark has a single writer: a cycle reads it once and writes
\* it at most once, as its last step; at most one cycle executes at a time;
\* no step of a request handler changes it.
\* ------------------------------------------------------------------------
C10_SingleWriter ==
    /\ [](reads <= 1 /\ writes <= 1 /\ jobs <= 1)
    /\ [][get_last_run_time(state_collection)' # get_last_run_time(state_collection) =>
            /\ pc = "commit"
            /\ pc' = "returned"
            /\ writes' = 1]_vars

\* a cycle committed after the server's shutdown cancelled the task, with a
\* token record written by a handler beside the watermark
C10_Witness ==
    /\ lifespan = "closed"
    /\ pc = "returned"
    /\ writes = 1
    /\ PatId \in DOMAIN state_collection
    /\ Watermark >= 1

\* ========================================================================
\* Indexing documents and searching the index
\* ========================================================================
\* the bodies short enough to rank their chunks in every order
ShortBodies == {b \in Bodies : Len(b) <= Len(GapBody)}

\* the chunks where={"original_id": d} selects in a collection
HeldChunks(coll, d) == {c \in coll : c.original_id = d}

\* what is known of document d once the batch at offset i, the last of the
\* call, is upserted: how often in a row the same content was indexed, and
\* the chunk ids the index held after the first of these times
Recorded(d) ==
    LET n == CHOOSE m \in DOMAIN df : df[m].co_id = d
        body == df[n].co_description
        same == indexed[d].runs > 0 /\ indexed[d].body = body
        stored == upsert(note_collection, Batch(ids, i))
    IN  [runs |-> IF same THEN indexed[d].runs + 1 ELSE 1,
         body |-> body,
         first |-> IF same THEN indexed[d].first
                   ELSE {c.id : c \in HeldChunks(stored, d)}]

\* UpsertStep keeping the record of the documents of the frame
UpsertIndexed ==
    /\ UpsertStep
    /\ indexed' =
         IF i + batch_size < Len(ids) THEN indexed
         ELSE [d \in DocIds |->
                 IF \E n \in DOMAIN df : df[n].co_id = d
                 THEN Recorded(d) ELSE indexed[d]]
    /\ UNCHANGED <<response, call, reloc>>

\* ------------------------------------------------------------------------
\* authenticate (src/mcp_auth.py)
\* ------------------------------------------------------------------------
\* a token, by what jwt.decode makes of it: the key it is signed with, the
\* claims sub and jti, and whether signature and expiry are good
Jwt(sub, valid) == [key |-> "SECRET_KEY", sub |-> sub, jti |-> "", valid |-> valid]
Pat(sub, jti) == [key |-> "PAT_SECRET_KEY", sub |-> sub, jti |-> jti, valid |-> TRUE]

\* request.headers.get("Authorization") is None
NoHeader == <<>>

\* Authorization headers, each as the parts auth_header.split(" ") gives,
\* that no state of the server accepts: no header, not two parts, an unknown
\* scheme, a name the user table does not hold (0), a token that is expired
\* or signed with the other key, a jti never issued
RefusedHeaders ==
    {NoHeader, <<"Bearer">>, <<"PAT", "a", "b">>,
     <<"Basic", Jwt(1, TRUE)>>, <<"Bearer", Jwt(0, TRUE)>>,
     <<"Bearer", Jwt(1, FALSE)>>, <<"Bearer", Pat(1, "x")>>,
     <<"PAT", Jwt(1, TRUE)>>, <<"PAT", Pat(1, "y")>>}

\* the headers of the users, and of the personal access token of user 1
UserHeaders ==
    {<<"Bearer", Jwt(u, TRUE)>> : u \in UserIds}
        \cup {<<"JWT", Jwt(1, TRUE)>>, <<"PAT", Pat(1, "x")>>}

\* jwt.decode(token, key, algorithms=[ALGORITHM]) raises InvalidTokenError
\* or ExpiredSignatureError
DecodeRaises(token, key) == token.key # key \/ ~token.valid

\* get_pat_jti(user_id): the jti of the entries stored under the user
get_pat_jti(sc, user_id) ==
    {sc[x].jti : x \in {y \in DOMAIN sc : /\ "sub" \in DOMAIN sc[y]
                                           /\ sc[y].sub = ToString(user_id)}}

\* fetch_user_from_mysql(username): the row of the user, or None when the
\* table holds no such name or the query raises (outage "mysql": pd.read_sql
\* raises; outage "system_state": state_collection.get raises)
fetch_user_from_mysql(username, outage) ==
    IF username \in UserIds /\ outage # "mysql"
    THEN [us_id |-> username] ELSE [us_id |-> 0]

Unauthorized == [status |-> "401", cause |-> "none", us_id |-> 0]

\* authenticate(request): a 401 response, None with request.state.user
\* set, the ValueError of unpacking a split that has not two parts, or the
\* exception of state_collection.get in get_pat_jti, which no except
\* clause of authenticate takes
authenticate(header, outage) ==
    IF header = NoHeader THEN Unauthorized
    ELSE IF Len(header) # 2
    THEN [status |-> "raised", cause |-> "bad_header", us_id |-> 0]
    ELSE IF header[1] \notin {"JWT", "Bearer", "PAT"} THEN Unauthorized
    ELSE IF header[1] = "PAT"
    THEN IF DecodeRaises(header[2], "PAT_SECRET_KEY") THEN Unauthorized
         ELSE IF outage = "system_state"
         THEN [status |-> "raised", cause |-> "token_lookup", us_id |-> 0]
         ELSE IF header[2].jti \notin get_pat_jti(state_collection, header[2].sub)
         THEN Unauthorized
         ELSE [status |-> "ok", cause |-> "none", us_id |-> header[2].sub]
    ELSE IF DecodeRaises(header[2], "SECRET_KEY") THEN Unauthorized
    ELSE IF fetch_user_from_mysql(header[2].sub, outage).us_id = 0
    THEN Unauthorized
    ELSE [status |-> "ok", cause |-> "none",
          us_id |-> fetch_user_from_mysql(header[2].sub, outage).us_id]

\* ------------------------------------------------------------------------
\* search and the two handlers that serve it (src/mcp_server.py)
\* ------------------------------------------------------------------------
\* the page size search_notes_tool asks for
tool_page_size == 20

\* the text of a query parameter the request does not have
Absent == "absent"

\* a query string with page and size in decimal
SomeParams == [query |-> "q", page |-> "0", size |-> "1", exact |-> Absent,
               withHidden |-> "true", withExternal |-> "true"]

\* the query strings of the requests: query, page and size all well formed,
\* or one of them missing or malformed, the three flags given or not
QueryParams ==
    {[SomeParams EXCEPT !.page = text] : text \in {"0", "1"}}
        \cup {[SomeParams EXCEPT !.exact = "true", !.withHidden = Absent,
                                 !.withExternal = "false"]}
        \cup {[SomeParams EXCEPT !.query = Absent]}
        \cup {[SomeParams EXCEPT !.page = text] : text \in {"x", Absent}}
        \cup {[SomeParams EXCEPT !.size = text] : text \in {"x", Absent}}

\* the GET /search requests, and the store each finds out of order: an
\* outage is met by the one request that reads the store, a request whose
\* header is refused or whose lookup fails comes with SomeParams
Requests ==
    [header : RefusedHeaders, params : {SomeParams}, outage : {"none"}]
        \cup [header : UserHeaders, params : QueryParams, outage : {"none"}]
        \cup {[header |-> <<"Bearer", Jwt(1, TRUE)>>, params |-> SomeParams,
               outage |-> "mysql"],
              [header |-> <<"PAT", Pat(1, "x")>>, params |-> SomeParams,
               outage |-> "system_state"]}

\* int(text): the number a decimal text denotes
IntOf == [text \in {"0", "1"} |-> IF text = "0" THEN 0 ELSE 1]

\* int(request.query_params[key]) raises KeyError or ValueError
IntRaises(text) == text = Absent \/ text \notin DOMAIN IntOf

\* ranked[page * size : (page + 1) * size]
PageOf(ranked, size, page) ==
    SubSeq(ranked, page * size + 1, Min2((page + 1) * size, Len(ranked)))

\* search without the scope of the owner: every chunk of the collection is
\* a candidate
search_unscoped(coll, user_id, query_text, exact, size, page, with_hidden, with_external) ==
    LET ranked == UNION {Orderings(shown) : shown \in SUBSET coll}
    IN  {[error |-> FALSE, chunks |-> PageOf(r, size, page)] : r \in ranked}
            \cup {[error |-> TRUE, chunks |-> <<>>]}

\* search(user_id, query, exact, size, page, with_hidden, with_external)
\* on the collection coll: the chunks of the owner that the query matches
\* and the filters let pass, in the order the ranking gives them, cut to
\* the page; or an error result. The chunks process_content stores carry
\* no field the two filters or the text of the query are known to read,
\* so whatever the query, exact and the two flags, the matches are any
\* subset of the owner's chunks in any order
search(coll, user_id, query_text, exact, size, page, with_hidden, with_external) ==
    LET mine == {c \in coll : c.user_id = user_id}
        ranked == UNION {Orderings(shown) : shown \in SUBSET mine}
    IN  {[error |-> FALSE, chunks |-> PageOf(r, size, page)] : r \in ranked}
            \cup {[error |-> TRUE, chunks |-> <<>>]}

\* _search_notes(query, exact, size, page, with_hidden, with_external):
\* search on behalf of request.state.user
search_notes_as(user, query_text, exact, size, page, with_hidden, with_external) ==
    search(note_collection, user.us_id, query_text, exact, size, page, with_hidden,
           with_external)

\* what leaves a handler: kind "raised" is an exception
Response(handler, kind, cause, user, chunks) ==
    [handler |-> handler, kind |-> kind, cause |-> cause, user |-> user,
     chunks |-> chunks]

\* search_notes_tool(query, page, withHidden), called once the middleware
\* has authenticated the request as user u
search_notes_tool(u, page, withHidden) ==
    /\ lifespan = "serving"
    /\ \E results \in search_notes_as([us_id |-> u], "q", FALSE, tool_page_size,
                                       page, withHidden, TRUE) :
        response' =
            IF results.error
            THEN Response("search_notes_tool", "error", "index_error", u, <<>>)
            ELSE IF results.chunks = <<>>
            THEN Response("search_notes_tool", "empty", "none", u, <<>>)
            ELSE Response("search_notes_tool", "results", "none", u, results.chunks)
    /\ UNCHANGED <<sync, note_collection, indexed, call, reloc>>

\* GET /search: search_notes(request), the request given by the parts of its
\* Authorization header, by its query string and by the store that is out
\* of order while it is served
search_notes(request) ==
    /\ lifespan = "serving"
    /\ LET auth == authenticate(request.header, request.outage)
           params == request.params
           u == auth.us_id
       IN  IF auth.status = "raised"
           THEN response' = Response("search_notes", "raised", auth.cause, 0, <<>>)
           ELSE IF auth.status = "401"
           THEN response' = Response("search_notes", "unauthorized", "none", 0, <<>>)
           ELSE IF params.query = Absent
           THEN response' = Response("search_notes", "raised", "no_query", u, <<>>)
           ELSE IF IntRaises(params.page) \/ IntRaises(params.size)
           THEN response' = Response("search_notes", "raised", "bad_parameter", u, <<>>)
           ELSE \E results \in search_notes_as([us_id |-> u], params.query,
                                               params.exact = "true",
                                               IntOf[params.size],
                                               IntOf[params.page],
                                               params.withHidden = "true",
                                               params.withExternal = "true") :
                response' =
                    IF results.error
                    THEN Response("search_notes", "raised", "index_error", u, <<>>)
                    ELSE Response("search_notes", "results", "none", u, results.chunks)
    /\ UNCHANGED <<sync, note_collection, indexed, call, reloc>>

\* The pipeline under writes of short notes to the source store, created in
\* the order of their ids, and under the search requests the server takes
\* while it runs
IndexNext ==
    \/ \E d \in DocIds, body \in ShortBodies :
          /\ \A e \in DocIds : e < d => db[e] # NoRow
          /\ CreateContent(d, "NOTE", body, now + 1)
    \/ \E d \in DocIds, body \in ShortBodies : UpdateContent(d, body, now + 1)
    \/ Startup
    \/ LoopSubmit
    \/ WorkerBegins
    \/ LoopReturn
    \/ LoopRaise
    \/ SleepDone
    \/ GetLastRun
    \/ Fetch
    \/ DeleteOld
    \/ Transform
    \/ UpsertIndexed
    \/ Commit
    \/ GetLastRunFail
    \/ DeleteFail
    \/ UpsertFail
    \/ CommitFail
    \/ AddPatJti
    \/ \E u \in UserIds, page \in 0..1 : search_notes_tool(u, page, page = 0)
    \/ \E request \in Requests : search_notes(request)

IndexSpec == Init /\ [][IndexNext]_vars

\* the chunk ids of a document: document id and the ordinal of every split
\* of its content that is not shorter than the cutoff
IdsOf(d, body) ==
    {<<d, n - 1>> : n \in {m \in DOMAIN body : Len(body[m]) >= MinChunkLen}}

\* the call has upserted its last batch and not yet written the watermark
Upserted(d) == pc = "commit" /\ \E n \in DOMAIN df : df[n].co_id = d

\* ------------------------------------------------------------------------
\* C11: when run_pipeline has upserted the chunks of a document, however
\* often it indexed the document with this content before, the index holds
\* the chunk id set it held after the first time; the ids pair the document
\* id with an ordinal, depend on document and content only, and no two
\* chunks of the document share one.
\* ------------------------------------------------------------------------
C11_IdempotentIds ==
    \A d \in DocIds :
        Upserted(d) =>
            LET held == IndexChunks(d)
                idset == {c.id : c \in held}
            IN  /\ indexed[d].runs >= 1
                /\ idset = indexed[d].first
                /\ idset = IdsOf(d, indexed[d].body)
                /\ Cardinality(held) = Cardinality(idset)
                /\ \A c \in held :
                      /\ c.id[1] = d
                      /\ c.id[2] \in 0..(Len(indexed[d].body) - 1)

\* a document of two chunks indexed a second time, unchanged, at a later
\* timestamp
C11_Witness ==
    \E d \in DocIds :
        /\ Upserted(d)
        /\ indexed[d].runs >= 2
        /\ indexed[d].body = GapBody
        /\ Cardinality(IndexChunks(d)) = 2
        /\ \A c \in IndexChunks(d) : ParseTimestamp(c.created_at) > 1

C13_SearchFailureIsPayload ==
    /\ response.kind # "raised"
    /\ response.cause # "none" => response.kind = "error"

\* ========================================================================
\* Kanban cards (src/notebook_client.py)
\* ========================================================================
\* An HTML body is the sequence of its pieces: a heading element
\* <hN ...>inner</hN> is [level |-> N, text |-> inner], the markup between
\* two headings is a piece of level 0. Texts are sequences of characters.
Heading(level, inner) == [level |-> level, text |-> inner]
Markup(text) == [level |-> 0, text |-> text]

\* what the pattern <h([1-6])\b[^>]*>(.*?)</h\2> matches
IsHeading(piece) == piece.level \in 1..6

\* header_text in match.group(3)
Contains(inner, header_text) ==
    \E a \in 1..(Len(inner) - Len(header_text) + 1) :
        SubSeq(inner, a, a + Len(header_text) - 1) = header_text

\* the first loop over matches: the first heading holding header_text,
\* 0 when the loop ends without one
RECURSIVE FirstMatch(_, _, _)
FirstMatch(html, header_text, n) ==
    IF n > Len(html) THEN 0
    ELSE IF IsHeading(html[n]) /\ Contains(html[n].text, header_text) THEN n
    ELSE FirstMatch(html, header_text, n + 1)

\* the second loop ending the block at deeper headings too
RECURSIVE BlockEndAtAnyHeading(_, _, _)
BlockEndAtAnyHeading(html, start, n) ==
    IF n > Len(html) THEN Len(html) + 1
    ELSE IF IsHeading(html[n]) THEN n
    ELSE BlockEndAtAnyHeading(html, start, n + 1)

\* the second loop over matches: the first later heading whose level is not
\* deeper than the level of the matched one, len(html) when there is none
RECURSIVE BlockEnd(_, _, _)
BlockEnd(html, start, n) ==
    IF n > Len(html) THEN Len(html) + 1
    ELSE IF IsHeading(html[n]) /\ html[n].level <= html[start].level THEN n
    ELSE BlockEnd(html, start, n + 1)

\* the card of a call that matched no heading (None)
NoCard == <<>>

\* _extract_and_remove_card(html, header_text) -> (new_html, extracted)
extract_and_remove_card(html, header_text) ==
    LET start_idx == FirstMatch(html, header_text, 1)
        end_idx == BlockEnd(html, start_idx, start_idx + 1)
    IN  IF start_idx = 0
        THEN [new_html |-> html, card |-> NoCard]
        ELSE [new_html |-> SubSeq(html, 1, start_idx - 1)
                              \o SubSeq(html, end_idx, Len(html)),
              card |-> SubSeq(html, start_idx, end_idx - 1)]

Levels == 1..MaxLevel
Inners == {<<"A">>, <<"A", "B">>}
HeaderTexts == {<<"A">>, <<"B">>, <<"C">>, <<>>}
Pieces == {Heading(l, t) : l \in Levels, t \in Inners} \cup {Markup(<<"x">>)}

\* "<h1>A</h1>x<h2>B</h2>y<h1>C</h1>z"
ExampleHtml == <<Heading(1, <<"A">>), Markup(<<"x">>), Heading(2, <<"B">>),
                 Markup(<<"y">>), Heading(1, <<"C">>), Markup(<<"z">>)>>

Htmls == UNION {[1..n -> Pieces] : n \in 0..MaxLen} \cup {ExampleHtml}

ExtractInit ==
    /\ SyncInit
    /\ QueryInit
    /\ RelocInit
    /\ \E html \in Htmls, header_text \in HeaderTexts :
          call = [fn |-> "extract_and_remove_card", html |-> html,
                  header_text |-> header_text, done |-> FALSE,
                  new_html |-> <<>>, card |-> NoCard]

ExtractCard ==
    /\ call.fn = "extract_and_remove_card"
    /\ ~call.done
    /\ LET out == extract_and_remove_card(call.html, call.header_text)
       IN  call' = [call EXCEPT !.done = TRUE, !.new_html = out.new_html,
                                !.card = out.card]
    /\ UNCHANGED <<sync, note_collection, query, reloc>>

ExtractNext == ExtractCard

ExtractSpec == ExtractInit /\ [][ExtractNext]_vars

\* the headings of html holding header_text
Matching(html, header_text) ==
    {n \in DOMAIN html : IsHeading(html[n]) /\ Contains(html[n].text, header_text)}

\* the headings after position s that are not deeper than the one at s
Closing(html, s) ==
    {n \in DOMAIN html : n > s /\ IsHeading(html[n]) /\ html[n].level <= html[s].level}

Least(S) == CHOOSE n \in S : \A m \in S : n <= m

\* ------------------------------------------------------------------------
\* C15: when a heading of html holds header_text, the block starts at the
\* first such heading and runs up to, not including, the next later
\* heading whose level is not greater, or to the end of html; the source
\* returned is html without exactly that span. "<h1>A</h1>x<h2>B</h2>y
\* <h1>C</h1>z" and "B" give the block "<h2>B</h2>y" and the source
\* "<h1>A</h1>x<h1>C</h1>z".
\* ------------------------------------------------------------------------
C15_BlockBoundary ==
    (call.fn = "extract_and_remove_card" /\ call.done
        /\ Matching(call.html, call.header_text) # {}) =>
        LET html == call.html
            s == Least(Matching(html, call.header_text))
            e == IF Closing(html, s) = {} THEN Len(html) + 1
                 ELSE Least(Closing(html, s))
        IN  /\ call.card = [n \in 1..(e - s) |-> html[s + n - 1]]
            /\ call.new_html = [n \in 1..(Len(html) - (e - s)) |->
                                   IF n < s THEN html[n] ELSE html[n + (e - s)]]
            /\ (html = ExampleHtml /\ call.header_text = <<"B">>) =>
                  /\ call.card = <<Heading(2, <<"B">>), Markup(<<"y">>)>>
                  /\ call.new_html = <<Heading(1, <<"A">>), Markup(<<"x">>),
                                       Heading(1, <<"C">>), Markup(<<"z">>)>>

\* the example of the claim, extracted
C15_Witness ==
    /\ call.fn = "extract_and_remove_card" /\ call.done
    /\ call.html = ExampleHtml
    /\ call.header_text = <<"B">>
    /\ call.card # NoCard

\* ------------------------------------------------------------------------
\* The notebook API and move_kanban_card_logic
\* ------------------------------------------------------------------------
Titles == {"todo", "done"}

\* the bodies notes are written with
CardHtmls == {<<>>,
              <<Heading(1, <<"A">>), Markup(<<"x">>)>>,
              <<Markup(<<"x">>), Heading(2, <<"A", "B">>), Markup(<<"x">>),
                Heading(1, <<"A">>)>>}

Greatest(S) == CHOOSE n \in S : \A m \in S : m <= n

\* the page size fetch_contents asks for
fetch_size == 256

\* fetch_contents(["NOTE"], True): page 0 of the NOTE rows sorted
\* by id, descending, fetch_size rows at most
FirstPage(rows) ==
    LET existing == {n \in DOMAIN rows : rows[n].exists}
        last == CHOOSE n \in existing :
                    Cardinality({m \in existing : m >= n}) = fetch_size
    IN  IF Cardinality(existing) <= fetch_size THEN existing
        ELSE {n \in existing : n >= last}

\* get_note_by_title over the rows given: the first NOTE of page 0 whose
\* title is the given one, None when the page holds none
NoteByTitle(rows, title) ==
    LET found == {n \in FirstPage(rows) : rows[n].title = title}
    IN  IF found = {} THEN NoneNote
        ELSE [id |-> Greatest(found), title |-> title,
              description |-> rows[Greatest(found)].description]

get_note_by_title(title) == NoteByTitle(notes, title)

\* PATCH /api/v1/content with {**current_note_data, "description": ...} (a
\* POST for a note that create_note makes), applied to the rows given
PatchedIn(rows, note, new_content) ==
    [rows EXCEPT ![note.id] = [title |-> note.title,
                                description |-> new_content,
                                exists |-> TRUE]]

Patched(note, new_content) == PatchedIn(notes, note, new_content)

\* _create_snapshot: POST of the updated data as a SNAPSHOT under parentId
SnapshotOf(note, new_content) ==
    [parentId |-> note.id, title |-> note.title, description |-> new_content]

\* the ids not given to a row yet
Free(rows) == {n \in DOMAIN rows : ~rows[n].exists}

\* the note write_note writes: the one get_note_by_title found, or the one
\* create_note posts, which gets the next id the store gives
NoteToWrite(rows, title, content_html) ==
    IF NoteByTitle(rows, title) # NoneNote THEN NoteByTitle(rows, title)
    ELSE [id |-> Least(Free(rows)), title |-> title,
          description |-> content_html]

\* the snapshots posted for the titles the handlers are called with
Saved == Cardinality({n \in DOMAIN snapshots : snapshots[n].title \in Titles})

\* no call of write_note or move_note is being served (the specifications
\* that serve the calls in sequence start a call only then)
HandlerIdle == IF call.fn = "none" THEN TRUE ELSE call.pc = "done"

\* write_note is called
write_note(title, content_html) ==
    /\ Saved < MaxSaves
    /\ get_note_by_title(title) = NoneNote => Free(notes) # {}
    /\ call' = [fn |-> "write_note", pc |-> "get", title |-> title,
                content_html |-> content_html, note |-> NoneNote,
                status |-> "none", action |-> "none", failed |-> "none"]
    /\ UNCHANGED <<sync, note_collection, query, reloc>>

\* existing_note = client.get_note_by_title(title)
WriteGet ==
    /\ call.fn = "write_note"
    /\ call.pc = "get"
    /\ call' = [call EXCEPT !.pc = "save",
                            !.note = get_note_by_title(call.title),
                            !.action = IF get_note_by_title(call.title) # NoneNote
                                       THEN "update" ELSE "create"]
    /\ UNCHANGED <<sync, note_collection, query, reloc>>

\* the PATCH of update_note_content, or the POST of create_note
WriteSave ==
    /\ call.fn = "write_note"
    /\ call.pc = "save"
    /\ call.action = "create" => Free(notes) # {}
    /\ LET note == IF call.action = "update"
                   THEN [call.note EXCEPT !.description = call.content_html]
                   ELSE [id |-> Least(Free(notes)), title |-> call.title,
                         description |-> call.content_html]
       IN  /\ notes' = Patched(note, call.content_html)
           /\ call' = [call EXCEPT !.pc = "snapshot", !.note = note]
    /\ UNCHANGED <<sync, note_collection, query, snapshots, mv>>

\* _create_snapshot of what was saved, and the return of the handler
WriteSnapshot ==
    /\ call.fn \in {"write_note", "move_note"}
    /\ call.pc = "snapshot"
    /\ snapshots' = Append(snapshots,
                           SnapshotOf(call.note, call.note.description))
    /\ call' = [call EXCEPT !.pc = "done", !.status = "success"]
    /\ UNCHANGED <<sync, note_collection, query, notes, mv>>

\* the requests of write_note and move_note, by the step that sends them
HandlerRequests == {"get", "get_new", "get_old", "save", "snapshot"}

\* raise_for_status() raises for the request in turn: the handler catches
\* the exception and returns {"status": "error", "message": ...}
WriteFails ==
    /\ call.fn \in {"write_note", "move_note"}
    /\ call.pc \in HandlerRequests
    /\ call' = [call EXCEPT !.pc = "done", !.status = "error",
                            !.action = "exception", !.failed = call.pc]
    /\ UNCHANGED <<sync, note_collection, query, reloc>>

\* the GET of get_note_by_title(source_title) is answered with an error
\* status: the exception leaves move_kanban_card_logic
MoveStartFails(source_title, target_title, header_text) ==
    /\ mv.pc = "idle"
    /\ mv' = [mv EXCEPT !.pc = "raised", !.failed = "get_source",
                        !.source_title = source_title,
                        !.target_title = target_title,
                        !.header_text = header_text]
    /\ UNCHANGED <<sync, note_collection, query, call, notes, snapshots>>

\* source_note = self.get_note_by_title(source_title)
MoveStart(source_title, target_title, header_text) ==
    /\ mv.pc = "idle"
    /\ mv' = [mv EXCEPT !.pc = "get_target",
                        !.source_title = source_title,
                        !.target_title = target_title,
                        !.header_text = header_text,
                        !.source_note = get_note_by_title(source_title)]
    /\ UNCHANGED <<sync, note_collection, query, call, notes, snapshots>>

\* target_note = self.get_note_by_title(target_title), the two checks and
\* the bodies to persist
MoveGetTarget ==
    /\ mv.pc = "get_target"
    /\ LET source_note == mv.source_note
           target_note == get_note_by_title(mv.target_title)
           out == extract_and_remove_card(source_note.description,
                                          mv.header_text)
       IN  mv' =
            IF source_note = NoneNote \/ target_note = NoneNote
            THEN [mv EXCEPT !.pc = "done", !.target_note = target_note,
                            !.result = "error_note_not_found"]
            ELSE IF out.card = NoCard
            THEN [mv EXCEPT !.pc = "done", !.target_note = target_note,
                            !.result = "error_card_not_found"]
            ELSE [mv EXCEPT !.pc = "patch_target",
                            !.target_note = target_note,
                            !.new_source_html = out.new_html,
                            !.card_content = out.card,
                            !.new_target_html = target_note.description
                                \o <<Markup(<<"\n">>)>> \o out.card]
    /\ UNCHANGED <<sync, note_collection, query, call, notes, snapshots>>

\* PatchTarget with the order of the two updates exchanged: the body of the
\* source is persisted first
PatchTargetAfterSource ==
    /\ mv.pc = "patch_target"
    /\ notes' = Patched(mv.source_note, mv.new_source_html)
    /\ mv' = [mv EXCEPT !.pc = "snapshot_target",
                        !.requests = Append(@, "patch_target")]
    /\ UNCHANGED <<sync, note_collection, query, call, snapshots>>

\* update_note_content(target_note["id"], ...): the PATCH
PatchTarget ==
    /\ mv.pc = "patch_target"
    /\ notes' = Patched(mv.target_note, mv.new_target_html)
    /\ mv' = [mv EXCEPT !.pc = "snapshot_target",
                        !.requests = Append(@, "patch_target")]
    /\ UNCHANGED <<sync, note_collection, query, call, snapshots>>

\* update_note_content(target_note["id"], ...): _create_snapshot
SnapshotTarget ==
    /\ mv.pc = "snapshot_target"
    /\ snapshots' = Append(snapshots,
                           SnapshotOf(mv.target_note, mv.new_target_html))
    /\ mv' = [mv EXCEPT !.pc = "patch_source",
                        !.requests = Append(@, "snapshot_target")]
    /\ UNCHANGED <<sync, note_collection, query, call, notes>>

\* update_note_content(source_note["id"], ...): the PATCH
PatchSource ==
    /\ mv.pc = "patch_source"
    /\ notes' = Patched(mv.source_note, mv.new_source_html)
    /\ mv' = [mv EXCEPT !.pc = "snapshot_source",
                        !.requests = Append(@, "patch_source")]
    /\ UNCHANGED <<sync, note_collection, query, call, snapshots>>

\* update_note_content(source_note["id"], ...): _create_snapshot, and the
\* return of the confirmation
SnapshotSource ==
    /\ mv.pc = "snapshot_source"
    /\ snapshots' = Append(snapshots,
                           SnapshotOf(mv.source_note, mv.new_source_html))
    /\ mv' = [mv EXCEPT !.pc = "done", !.result = "moved",
                        !.requests = Append(@, "snapshot_source")]
    /\ UNCHANGED <<sync, note_collection, query, call, notes>>

MoveRequests == {"patch_target", "snapshot_target", "patch_source",
                 "snapshot_source"}

\* response.raise_for_status() raising for the request in turn, the GET
\* of the target or one of the four updates: the store is left as it is
\* and the exception leaves move_kanban_card_logic
MoveRequestFails ==
    /\ mv.pc \in MoveRequests \cup {"get_target"}
    /\ mv' = [mv EXCEPT !.pc = "raised", !.failed = mv.pc,
                        !.requests = IF mv.pc \in MoveRequests
                                     THEN Append(@, mv.pc) ELSE @]
    /\ UNCHANGED <<sync, note_collection, query, call, notes, snapshots>>

\* write_note and move_kanban_card_logic served one after the other: a
\* call starts when the call before it has returned, and no write_note
\* once the relocation has started
RelocNext ==
    \/ \E title \in Titles, content_html \in CardHtmls :
          /\ HandlerIdle
          /\ mv.pc = "idle"
          /\ write_note(title, content_html)
    \/ WriteGet
    \/ WriteSave
    \/ WriteSnapshot
    \/ WriteFails
    \/ \E source_title, target_title \in Titles, header_text \in HeaderTexts :
          /\ HandlerIdle
          /\ \/ MoveStart(source_title, target_title, header_text)
             \/ MoveStartFails(source_title, target_title, header_text)
    \/ MoveGetTarget
    \/ PatchTarget
    \/ SnapshotTarget
    \/ PatchSource
    \/ SnapshotSource
    \/ MoveRequestFails

RelocSpec == Init /\ [][RelocNext]_vars

\* does seq end with the non-empty sequence tail
EndsWith(seq, tail) ==
    /\ Len(tail) <= Len(seq)
    /\ SubSeq(seq, Len(seq) - Len(tail) + 1, Len(seq)) = tail

\* ------------------------------------------------------------------------
\* C14: after a relocation that returned its confirmation, whichever the
\* source and the target title, also equal ones, the persisted source body
\* is the body read with the block taken out of its place, and the
\* persisted target body ends with the extracted block.
\* ------------------------------------------------------------------------
C14_MovedBlockPersisted ==
    (mv.pc = "done" /\ mv.result = "moved") =>
        /\ notes[mv.source_note.id].description = mv.new_source_html
        /\ EndsWith(notes[mv.target_note.id].description, mv.card_content)

\* ------------------------------------------------------------------------
\* C16: when the update of the target went through and the update of the
\* source failed, the relocation returns a result that reports the partial
\* completion and names the target as the side done, the target keeps its
\* new body, and nothing is raised to the caller.
\* ------------------------------------------------------------------------
C16_PartialReported ==
    mv.failed \in {"patch_source", "snapshot_source"} =>
        /\ mv.pc = "done"
        /\ mv.result = "partial_target_done"
        /\ notes[mv.target_note.id].description = mv.new_target_html

\* ------------------------------------------------------------------------
\* C17: a relocation that has ended and whose source title or target title
\* names no document, or whose heading text matches no heading of the
\* source, has returned an error and has sent no update and no snapshot
\* creation.
\* ------------------------------------------------------------------------
C17_ErrorWithoutMutation ==
    (mv.pc \in {"done", "raised"}
        /\ \/ get_note_by_title(mv.source_title) = NoneNote
           \/ get_note_by_title(mv.target_title) = NoneNote
           \/ Matching(get_note_by_title(mv.source_title).description,
                       mv.header_text) = {}) =>
        /\ mv.pc = "done"
        /\ mv.result \in {"error_note_not_found", "error_card_not_found"}
        /\ mv.requests = <<>>

\* ========================================================================
\* Revision history: get_note_snapshots (src/mcp_server.py)
\* ========================================================================

\* A history is the sequence of the SNAPSHOT and DELTA rows under one
\* note, oldest first; the id of a row is its place. snapshot_id is
\* option.SNAPSHOT_ID, 0 when the row has none. A description is a
\* sequence of characters, the one of a DELTA a sequence of the tokens of
\* its encoded diff.
NodeOf(kind, id) ==
    [id |-> id, type |-> kind.type, description |-> kind.description,
     snapshot_id |-> kind.snapshot_id]

SnapshotTexts == {<<"H">>, <<"H", "i">>}
DeltaTexts == {<<"=2", "+!">>}

NodeKinds ==
    {[type |-> "SNAPSHOT", description |-> text, snapshot_id |-> 0] :
        text \in SnapshotTexts}
    \cup {[type |-> "DELTA", description |-> delta, snapshot_id |-> base] :
            delta \in DeltaTexts, base \in 0..MaxNodes}

\* snapshots saved one after the other
Saves(count) ==
    [n \in 1..count |->
        [type |-> "SNAPSHOT", description |-> <<"H", "i">>, snapshot_id |-> 0]]

\* up to MaxNodes rows of any kind, alone or followed by one full page of
\* later snapshots
Histories ==
    {[n \in 1..Len(kinds) |-> NodeOf(kinds[n], n)] :
        kinds \in {first \o Saves(later) :
                     first \in UNION {[1..n -> NodeKinds] : n \in 0..MaxNodes},
                     later \in {0, fetch_size}}}

Reverse(s) == [n \in 1..Len(s) |-> s[Len(s) + 1 - n]]

\* fetch_contents(types, True, parent_id, page): GET /api/v1/content with
\* sort id,DESC and size 256
fetch_contents(history, types, page) ==
    LET wanted(node) == node.type \in types
        rows == Reverse(SelectSeq(history, wanted))
    IN  SubSeq(rows, page * fetch_size + 1,
               Min2((page + 1) * fetch_size, Len(rows)))

\* one token of an encoded diff: =n keeps n characters of the base, -n
\* skips n, +text inserts text
TokenOp(token) ==
    CASE token = "=2" -> [op |-> "=", n |-> 2, text |-> <<>>]
      [] token = "=1" -> [op |-> "=", n |-> 1, text |-> <<>>]
      [] token = "-1" -> [op |-> "-", n |-> 1, text |-> <<>>]
      [] token = "+!" -> [op |-> "+", n |-> 0, text |-> <<"!">>]
      [] OTHER -> [op |-> "?", n |-> 0, text |-> <<>>]

\* dmp.diff_text2(dmp.diff_fromDelta(text1, delta)) from token n on with
\* the pointer into text1; ok is FALSE where diff_fromDelta raises
RECURSIVE DeltaFrom(_, _, _, _)
DeltaFrom(text1, delta, n, pointer) ==
    IF n > Len(delta)
    THEN [ok |-> pointer = Len(text1), text2 |-> <<>>]
    ELSE LET t == TokenOp(delta[n])
             rest == DeltaFrom(text1, delta, n + 1, pointer + t.n)
             kept == SubSeq(text1, pointer + 1, Min2(pointer + t.n, Len(text1)))
         IN  CASE t.op = "+" -> [ok |-> rest.ok, text2 |-> t.text \o rest.text2]
               [] t.op = "=" -> [ok |-> rest.ok, text2 |-> kept \o rest.text2]
               [] t.op = "-" -> rest
               [] OTHER -> [ok |-> FALSE, text2 |-> <<>>]

diff_fromDelta(text1, delta) == DeltaFrom(text1, delta, 1, 0)

\* to_markdown(description_html): the rendering of a body
to_markdown(description_html) == [markdown |-> description_html]

\* snapshot_map = {item['id']: item for item in snapshots}
SnapshotMap(snapshots_fetched) ==
    [id \in {snapshots_fetched[n].id : n \in DOMAIN snapshots_fetched} |->
        CHOOSE item \in Range(snapshots_fetched) : item.id = id]

Returned(item, description_html) ==
    [id |-> item.id, type |-> item.type,
     content |-> to_markdown(description_html)]

\* one pass of the loop body of get_note_snapshots: the entry appended to
\* results, or the error logged before continue
ResolveItem(item, snapshot_map) ==
    IF item.type = "DELTA" /\ item.snapshot_id # 0
    THEN IF item.snapshot_id \in DOMAIN snapshot_map
         THEN LET out == diff_fromDelta(
                            snapshot_map[item.snapshot_id].description,
                            item.description)
              IN  IF out.ok
                  THEN [returned |-> TRUE, entry |-> Returned(item, out.text2)]
                  ELSE [returned |-> FALSE,
                        entry |-> [event |-> "restoration_failed",
                                   delta |-> item.id,
                                   snapshot |-> item.snapshot_id]]
         ELSE [returned |-> FALSE,
               entry |-> [event |-> "snapshot_not_found",
                          delta |-> item.id,
                          snapshot |-> item.snapshot_id]]
    ELSE [returned |-> TRUE, entry |-> Returned(item, item.description)]

Entries(outcomes) == [n \in DOMAIN outcomes |-> outcomes[n].entry]

\* the loop over contents leaving at the first DELTA whose base is not found
ResolveUntilMissing(contents, snapshot_map) ==
    LET all == [n \in DOMAIN contents |-> ResolveItem(contents[n], snapshot_map)]
        missing == {n \in DOMAIN all : /\ ~all[n].returned
                                       /\ all[n].entry.event = "snapshot_not_found"}
        outcomes == IF missing = {} THEN all ELSE SubSeq(all, 1, Least(missing))
        appended(o) == o.returned
        logged(o) == ~o.returned
    IN  [results |-> Entries(SelectSeq(outcomes, appended)),
         log |-> Entries(SelectSeq(outcomes, logged))]

\* the loop over contents of get_note_snapshots
Resolve(contents, snapshot_map) ==
    LET outcomes == [n \in DOMAIN contents |-> ResolveItem(contents[n], snapshot_map)]
        appended(o) == o.returned
        logged(o) == ~o.returned
    IN  [results |-> Entries(SelectSeq(outcomes, appended)),
         log |-> Entries(SelectSeq(outcomes, logged))]

\* get_note_snapshots(note_id, page) from the answers to its two requests
\* on: the check of contents, the map and the loop
get_note_snapshots(contents, snapshots_fetched) ==
    LET out == Resolve(contents, SnapshotMap(snapshots_fetched))
    IN  IF contents = <<>>
        THEN [contents |-> contents, lookup |-> snapshots_fetched,
              message |-> "no_history", snapshots |-> <<>>, log |-> <<>>]
        ELSE [contents |-> contents, lookup |-> snapshots_fetched,
              message |-> "", snapshots |-> out.results, log |-> out.log]

NoAnswer == [contents |-> <<>>, lookup |-> <<>>, message |-> "",
             snapshots |-> <<>>, log |-> <<>>]

\* get_note_snapshots is called for a note; history holds the rows the
\* notebook API keeps under the note
HistInit ==
    /\ SyncInit
    /\ QueryInit
    /\ RelocInit
    /\ \E history \in Histories, page \in 0..1 :
          call = [fn |-> "get_note_snapshots", pc |-> "get_contents",
                  history |-> history, page |-> page, posts |-> 0,
                  contents |-> <<>>, done |-> FALSE, answer |-> NoAnswer]

\* contents = client.fetch_contents(["SNAPSHOT", "DELTA"], True, note_id, page)
GetContents ==
    /\ call.fn = "get_note_snapshots"
    /\ call.pc = "get_contents"
    /\ call' = [call EXCEPT !.pc = "get_snapshots",
                            !.contents = fetch_contents(call.history,
                                            {"SNAPSHOT", "DELTA"}, call.page)]
    /\ UNCHANGED <<sync, note_collection, query, reloc>>

\* snapshots = client.fetch_contents(["SNAPSHOT"], True, note_id, 0), and
\* the rest of the handler to its return
GetNoteSnapshots ==
    /\ call.fn = "get_note_snapshots"
    /\ call.pc = "get_snapshots"
    /\ call' = [call EXCEPT !.pc = "done", !.done = TRUE,
                            !.answer = get_note_snapshots(call.contents,
                                          fetch_contents(call.history,
                                                         {"SNAPSHOT"}, 0))]
    /\ UNCHANGED <<sync, note_collection, query, reloc>>

\* response.raise_for_status() raises in fetch_contents for the request in
\* turn: the exception leaves get_note_snapshots
GetNoteSnapshotsFails ==
    /\ call.fn = "get_note_snapshots"
    /\ call.pc \in {"get_contents", "get_snapshots"}
    /\ call' = [call EXCEPT !.pc = "raised"]
    /\ UNCHANGED <<sync, note_collection, query, reloc>>

\* _create_snapshot of another handler posts a SNAPSHOT under the note
\* while get_note_snapshots is being served
PostSnapshot ==
    /\ call.fn = "get_note_snapshots"
    /\ call.pc \in {"get_contents", "get_snapshots"}
    /\ call.posts < MaxPosts
    /\ call' = [call EXCEPT !.posts = @ + 1,
                            !.history = Append(@, NodeOf(Saves(1)[1], Len(@) + 1))]
    /\ UNCHANGED <<sync, note_collection, query, reloc>>

HistNext ==
    \/ GetContents
    \/ GetNoteSnapshots
    \/ GetNoteSnapshotsFails
    \/ PostSnapshot

HistSpec == HistInit /\ [][HistNext]_vars

\* the ids of the snapshots fetched as possible bases
LookupIds == {call.answer.lookup[n].id : n \in DOMAIN call.answer.lookup}

\* a DELTA that declares a base the fetched snapshots do not hold
MissingBase(item) ==
    /\ item.type = "DELTA"
    /\ item.snapshot_id # 0
    /\ item.snapshot_id \notin LookupIds

\* a DELTA whose encoded diff does not fit its fetched base
Broken(item) ==
    /\ item.type = "DELTA"
    /\ item.snapshot_id \in LookupIds
    /\ ~diff_fromDelta(call.history[item.snapshot_id].description,
                       item.description).ok

Answered == call.fn = "get_note_snapshots" /\ call.done

\* ------------------------------------------------------------------------
\* C18: a DELTA of the page whose declared base is not among the fetched
\* snapshots is left out of the result and an error naming it is logged;
\* the nodes of the page that can be resolved are all returned, in the
\* order fetched, the snapshots with their own content.
\* ------------------------------------------------------------------------
C18_MissingBaseOmitted ==
    Answered =>
        LET page == call.answer.contents
            res == call.answer.snapshots
            log == call.answer.log
        IN  /\ \A n \in DOMAIN page :
                  MissingBase(page[n]) =>
                      /\ \A m \in DOMAIN res : res[m].id # page[n].id
                      /\ \E l \in DOMAIN log :
                            /\ log[l].event = "snapshot_not_found"
                            /\ log[l].delta = page[n].id
                            /\ log[l].snapshot = page[n].snapshot_id
            /\ {res[m].id : m \in DOMAIN res} =
                  {page[n].id : n \in {a \in DOMAIN page :
                      ~MissingBase(page[a]) /\ ~Broken(page[a])}}
            /\ \A a, b \in DOMAIN res : a < b => res[a].id > res[b].id
            /\ \A m \in DOMAIN res :
                  res[m].type = "SNAPSHOT" =>
                      res[m].content =
                          to_markdown(call.history[res[m].id].description)

\* a page with a DELTA without base between two nodes that are returned
C18_Witness ==
    /\ Answered
    /\ \E n \in DOMAIN call.answer.contents :
          /\ MissingBase(call.answer.contents[n])
          /\ \E a, b \in DOMAIN call.answer.snapshots :
                /\ call.answer.snapshots[a].id > call.answer.contents[n].id
                /\ call.answer.snapshots[b].id < call.answer.contents[n].id

\* ------------------------------------------------------------------------
\* C19: for every DELTA of the requested page whose declared base is a
\* snapshot of the history, that snapshot is among the snapshots fetched
\* as bases, on any page and for any number of snapshots.
\* ------------------------------------------------------------------------
C19_BaseInLookup ==
    Answered =>
        \A n \in DOMAIN call.answer.contents :
            LET item == call.answer.contents[n]
            IN  (/\ item.type = "DELTA"
                 /\ item.snapshot_id \in DOMAIN call.history
                 /\ call.history[item.snapshot_id].type = "SNAPSHOT")
                    => item.snapshot_id \in LookupIds

\* ------------------------------------------------------------------------
\* C20: every DELTA in the result carries the rendering of its encoded
\* diff applied to the snapshot it declares as base; a DELTA that declares
\* no base, or one that cannot be resolved, is not in the result.
\* ------------------------------------------------------------------------
C20_DeltaReconstructed ==
    Answered =>
        \A m \in DOMAIN call.answer.snapshots :
            LET entry == call.answer.snapshots[m]
                item == call.history[entry.id]
            IN  entry.type = "DELTA" =>
                    /\ item.snapshot_id \in DOMAIN call.history
                    /\ call.history[item.snapshot_id].type = "SNAPSHOT"
                    /\ LET out == diff_fromDelta(
                                call.history[item.snapshot_id].description,
                                item.description)
                       IN  /\ out.ok
                           /\ entry.content = to_markdown(out.text2)

\* ========================================================================
\* Snapshots and partial failure of a relocation
\* ========================================================================
\* the relocation has ended: it returned or an exception left it
MoveEnded == mv.pc \in {"done", "raised"}

\* the request named was sent and answered without an error status
Persisted(request) ==
    /\ \E n \in DOMAIN mv.requests : mv.requests[n] = request
    /\ mv.failed # request

\* a SNAPSHOT row under the note with the body given
HasSnapshot(note, body) ==
    \E n \in DOMAIN snapshots :
        /\ snapshots[n].parentId = note.id
        /\ snapshots[n].description = body

\* ------------------------------------------------------------------------
\* C21: when a relocation has ended, by its return or by an exception,
\* each of its two updates that was persisted has a SNAPSHOT whose parentId
\* is the id of the note updated and whose content is the body persisted.
\* ------------------------------------------------------------------------
C21_MutationSnapshotted ==
    MoveEnded =>
        /\ Persisted("patch_target") =>
              HasSnapshot(mv.target_note, mv.new_target_html)
        /\ Persisted("patch_source") =>
              HasSnapshot(mv.source_note, mv.new_source_html)

\* ------------------------------------------------------------------------
\* C25: from the moment a relocation between two distinct notes has taken
\* the block out of the body it read, in every state up to its end and
\* after the failure of any one request, the block is held by the persisted
\* body of the source or by that of the target.
\* ------------------------------------------------------------------------
C25_BlockNeverLost ==
    (/\ mv.pc \notin {"idle", "get_target"}
     /\ mv.card_content # NoCard
     /\ mv.source_note.id # mv.target_note.id) =>
        \/ Contains(notes[mv.source_note.id].description, mv.card_content)
        \/ Contains(notes[mv.target_note.id].description, mv.card_content)

\* the update of the source failed after that of the target went through:
\* the block is held by both notes
C25_Witness ==
    /\ mv.pc = "raised"
    /\ mv.failed = "patch_source"
    /\ mv.source_note.id # mv.target_note.id
    /\ Contains(notes[mv.source_note.id].description, mv.card_content)
    /\ Contains(notes[mv.target_note.id].description, mv.card_content)

\* ========================================================================
\* The watermark over cycles, failures and restarts
\* ========================================================================
\* ------------------------------------------------------------------------
\* C27: no step lowers the persisted watermark, and the step of a cycle
\* that commits writes a watermark strictly greater than the one the cycle
\* read at its start, whatever cycles, failures and kills of the process
\* came before.
\* ------------------------------------------------------------------------
C27_WatermarkMonotone ==
    [][/\ Watermark' >= Watermark
       /\ (pc = "commit" /\ pc' = "returned") =>
              Watermark' > ParseTimestamp(last_run)]_vars

\* a cycle that started from a watermark already committed has committed a
\* greater one
C27_Witness ==
    /\ pc = "returned"
    /\ writes = 1
    /\ ParseTimestamp(last_run) >= 1
    /\ Watermark > ParseTimestamp(last_run)

\* ========================================================================
\* Modifications the cycles can no longer fetch
\* ========================================================================
\* the index does not hold the chunks of the current content of note d
Stale(d) ==
    /\ db[d].co_type = "NOTE"
    /\ IndexChunks(d) # ChunkSet(RowOf(d))

\* a running cycle holds the current row of d in its frame
InFlight(d) ==
    /\ pc \in Executing
    /\ \E n \in DOMAIN df : df[n] = RowOf(d)

\* ------------------------------------------------------------------------
\* C24: a NOTE whose current content differs from its indexed chunks, also
\* one modified while a cycle was running, is in the frame of the running
\* cycle or has co_updated greater than the persisted watermark, so that
\* the next cycle fetches it: no modification is left behind the watermark.
\* ------------------------------------------------------------------------
C24_StaleIsFetchable ==
    \A d \in DocIds :
        Stale(d) => (db[d].co_updated > Watermark \/ InFlight(d))

\* ========================================================================
\* Titles under write_note and move_note (src/mcp_server.py)
\* ========================================================================
\* move_note is called
move_note(old_title, new_title) ==
    /\ Saved < MaxSaves
    /\ call' = [fn |-> "move_note", pc |-> "get_new", title |-> old_title,
                new_title |-> new_title, note |-> NoneNote,
                status |-> "none", action |-> "none", failed |-> "none"]
    /\ UNCHANGED <<sync, note_collection, query, reloc>>

\* if client.get_note_by_title(new_title): the error "already exists"
MoveNoteGetNew ==
    /\ call.fn = "move_note"
    /\ call.pc = "get_new"
    /\ call' = IF get_note_by_title(call.new_title) # NoneNote
               THEN [call EXCEPT !.pc = "done", !.status = "error",
                                 !.action = "already_exists"]
               ELSE [call EXCEPT !.pc = "get_old"]
    /\ UNCHANGED <<sync, note_collection, query, reloc>>

\* note = client.get_note_by_title(old_title): the error "not found"
MoveNoteGetOld ==
    /\ call.fn = "move_note"
    /\ call.pc = "get_old"
    /\ call' = IF get_note_by_title(call.title) = NoneNote
               THEN [call EXCEPT !.pc = "done", !.status = "error",
                                 !.action = "not_found"]
               ELSE [call EXCEPT !.pc = "save", !.action = "rename",
                                 !.note = get_note_by_title(call.title)]
    /\ UNCHANGED <<sync, note_collection, query, reloc>>

\* rename_note: the PATCH with {**current_note_data, "title": new_title}
MoveNoteSave ==
    /\ call.fn = "move_note"
    /\ call.pc = "save"
    /\ LET renamed == [call.note EXCEPT !.title = call.new_title]
       IN  /\ notes' = Patched(renamed, renamed.description)
           /\ call' = [call EXCEPT !.pc = "snapshot", !.note = renamed]
    /\ UNCHANGED <<sync, note_collection, query, snapshots, mv>>

\* a note written earlier under a title of its own
Filler(n) == [title |-> ToString(n), description |-> <<>>, exists |-> TRUE]

\* the notes a store starts with, oldest first: none or one with a title
\* the handlers are called with
Heads ==
    {<<>>} \cup {<<[title |-> title, description |-> body, exists |-> TRUE]>> :
                    title \in Titles, body \in CardHtmls}

\* stores with unique titles: the notes of head, then none or fetch_size
\* notes written later, then the ids not given yet
Stores ==
    {[n \in 1..(Len(head) + later + MaxNotes) |->
        IF n <= Len(head) THEN head[n]
        ELSE IF n <= Len(head) + later THEN Filler(n)
        ELSE NoNote] : head \in Heads, later \in {0, fetch_size}}

\* the snapshot each note of the store was created with
SnapshotsOf(rows) ==
    [n \in 1..Cardinality({m \in DOMAIN rows : rows[m].exists}) |->
        SnapshotOf([id |-> n, title |-> rows[n].title], rows[n].description)]

TitleInit ==
    /\ SyncInit
    /\ QueryInit
    /\ call = NoCall
    /\ mv = MvIdle
    /\ notes \in Stores
    /\ snapshots = SnapshotsOf(notes)

\* write_note and move_note called one after the other: a call starts
\* when the call before it has returned
TitleNext ==
    \/ \E title \in Titles, content_html \in CardHtmls :
          /\ HandlerIdle
          /\ write_note(title, content_html)
    \/ WriteGet
    \/ WriteSave
    \/ \E old_title, new_title \in Titles :
          /\ HandlerIdle
          /\ move_note(old_title, new_title)
    \/ MoveNoteGetNew
    \/ MoveNoteGetOld
    \/ MoveNoteSave
    \/ WriteSnapshot
    \/ WriteFails

TitleSpec == TitleInit /\ [][TitleNext]_vars

\* ------------------------------------------------------------------------
\* C28: after any sequence of write_note and move_note calls, one at a
\* time, on a store whose titles were unique, no two notes have the same
\* title.
\* ------------------------------------------------------------------------
C28_TitlesUnique ==
    \A a, b \in DOMAIN notes :
        (a # b /\ notes[a].exists /\ notes[b].exists) =>
            notes[a].title # notes[b].title

\* ========================================================================
\* A relocation and a write_note served at the same time
\* ========================================================================
\* write_note from its first request to its return, applied to rows
Written(rows, title, content_html) ==
    PatchedIn(rows, NoteToWrite(rows, title, content_html), content_html)

\* move_kanban_card_logic from its first request to its return, applied to
\* rows
Moved(rows, source_title, target_title, header_text) ==
    LET source_note == NoteByTitle(rows, source_title)
        target_note == NoteByTitle(rows, target_title)
        out == extract_and_remove_card(source_note.description, header_text)
    IN  IF source_note = NoneNote \/ target_note = NoneNote THEN rows
        ELSE IF out.card = NoCard THEN rows
        ELSE PatchedIn(PatchedIn(rows, target_note,
                                 target_note.description
                                    \o <<Markup(<<"\n">>)>> \o out.card),
                       source_note, out.new_html)

NoteRows ==
    {[title |-> title, description |-> body, exists |-> TRUE] :
        title \in Titles, body \in CardHtmls}

\* stores of notes with unique titles, oldest first
ConcStores ==
    LET heads == {h \in UNION {[1..m -> NoteRows] : m \in 0..Cardinality(Titles)} :
                    \A a, b \in DOMAIN h : a # b => h[a].title # h[b].title}
    IN  {[n \in NoteIds |-> IF n <= Len(head) THEN head[n] ELSE NoNote] :
            head \in heads}

\* write_note has been called and move_kanban_card_logic not yet; before
\* is the store both handlers start from
ConcInit ==
    /\ SyncInit
    /\ QueryInit
    /\ mv = MvIdle
    /\ notes \in ConcStores
    /\ snapshots = SnapshotsOf(notes)
    /\ \E title \in Titles, content_html \in CardHtmls :
          call = [fn |-> "write_note", pc |-> "get", title |-> title,
                  content_html |-> content_html, note |-> NoneNote,
                  status |-> "none", action |-> "none", failed |-> "none",
                  before |-> notes]

\* the steps of a write_note and of a relocation in any order
ConcNext ==
    \/ \E source_title, target_title \in Titles, header_text \in HeaderTexts :
          \/ MoveStart(source_title, target_title, header_text)
          \/ MoveStartFails(source_title, target_title, header_text)
    \/ MoveGetTarget
    \/ PatchTarget
    \/ SnapshotTarget
    \/ PatchSource
    \/ SnapshotSource
    \/ MoveRequestFails
    \/ WriteGet
    \/ WriteSave
    \/ WriteSnapshot
    \/ WriteFails

ConcSpec == ConcInit /\ [][ConcNext]_vars

\* ------------------------------------------------------------------------
\* C26: when a relocation and a write_note that were served at the same
\* time have both returned, no request of either having failed, the
\* persisted notes are those that the two
\* operations leave when one runs to its end before the other starts, in
\* one of the two orders.
\* ------------------------------------------------------------------------
C26_Serializable ==
    (mv.pc = "done" /\ call.pc = "done" /\ call.status = "success") =>
        \/ notes = Written(Moved(call.before, mv.source_title,
                                 mv.target_title, mv.header_text),
                           call.title, call.content_html)
        \/ notes = Moved(Written(call.before, call.title, call.content_html),
                         mv.source_title, mv.target_title, mv.header_text)

\* ========================================================================
\* Chunking: the header split and the secondary split of process_content
\* (src/embedding.py)
\* ========================================================================
\* md_content, the markdown markdownify returns, is a sequence of lines
\* that follow each other without blank lines: a heading line "#"*level,
\* a blank and a title of one character that no other heading has, or a
\* text line of len characters (level 0)
HeadingLine(level) == [level |-> level, len |-> level + 2]

TextLine(len) == [level |-> 0, len |-> len]

\* the lengths of the text lines: shorter than the cutoff, two of which
\* exceed chunk_size together, within chunk_size as a length but not as
\* sys.getsizeof, and longer than chunk_size plus chunk_overlap
TextLens == {1, 300, 460, 700}

MdLines == {HeadingLine(level) : level \in Levels} \cup
           {TextLine(len) : len \in TextLens}

Markdowns == UNION {[1..m -> MdLines] : m \in 0..MaxLines}

RECURSIVE Total(_)
Total(lens) == IF lens = <<>> THEN 0 ELSE Head(lens) + Total(Tail(lens))

\* len(page_content) of a section: its lines joined by "\n"
PageLen(section) == Total(section) + Len(section) - 1

getsizeof(len) == StrOverhead + len

\* MarkdownHeaderTextSplitter(headers "#".."#"*depth).split_text: a heading
\* line of level 1..depth ends the section and is left out of the content,
\* any other line is content; a section is the sequence of the lengths of
\* its lines, and a heading without content lines gives no section
RECURSIVE SplitLines(_, _, _, _, _)
SplitLines(md, depth, n, current, sections) ==
    LET closed == IF current = <<>> THEN sections
                  ELSE Append(sections, current)
    IN  IF n > Len(md) THEN closed
        ELSE IF md[n].level \in 1..depth
        THEN SplitLines(md, depth, n + 1, <<>>, closed)
        ELSE SplitLines(md, depth, n + 1, Append(current, md[n].len),
                        sections)

split_text(md, depth) == SplitLines(md, depth, 1, <<>>, <<>>)

\* any([sys.getsizeof(d.page_content) > chunk_size for d in md_header_splits])
AnyOver(sections) ==
    \E n \in DOMAIN sections : getsizeof(PageLen(sections[n])) > chunk_size

\* the loop over range(1, 7) that keeps the split of level 1
RECURSIVE HeaderSearchKeepsFirst(_, _, _)
HeaderSearchKeepsFirst(md, max_level, turn) ==
    LET md_header_splits == split_text(md, 1)
    IN  IF AnyOver(md_header_splits) /\ turn < max_depth
        THEN HeaderSearchKeepsFirst(md, max_level + 1, turn + 1)
        ELSE [depth |-> max_level, md_header_splits |-> md_header_splits]

\* the loop over range(1, 7): split at the headings of level 1..max_level,
\* one level more when a section is over chunk_size; depth is the level of
\* the split the loop ends with
RECURSIVE HeaderSearch(_, _, _)
HeaderSearch(md, max_level, turn) ==
    LET md_header_splits == split_text(md, max_level)
    IN  IF AnyOver(md_header_splits) /\ turn < max_depth
        THEN HeaderSearch(md, max_level + 1, turn + 1)
        ELSE [depth |-> max_level, md_header_splits |-> md_header_splits]

\* _split_text_with_regex with the separator kept: the first line, then
\* each later line with the "\n" before it
SeparatorSplits(section) ==
    [n \in DOMAIN section |->
        [len |-> section[n] + (IF n = 1 THEN 0 ELSE 1),
         lead |-> IF n = 1 THEN 0 ELSE 1]]

PiecesLen(current) == Total([n \in DOMAIN current |-> current[n].len])

\* _join_docs: the pieces joined and stripped, nothing for an empty text
Joined(current) ==
    IF current = <<>> THEN <<>>
    ELSE IF PiecesLen(current) - current[1].lead = 0 THEN <<>>
    ELSE <<PiecesLen(current) - current[1].lead>>

\* the while loop of _merge_splits: pieces leave the front until what is
\* kept is within chunk_overlap and has room for the piece of length len
RECURSIVE Overlap(_, _)
Overlap(current, len) ==
    IF \/ PiecesLen(current) > chunk_overlap
       \/ (PiecesLen(current) + len > chunk_size /\ PiecesLen(current) > 0)
    THEN Overlap(Tail(current), len)
    ELSE current

\* _merge_splits(splits, ""): the lengths of the chunks merged from pieces
\* shorter than chunk_size
RECURSIVE MergeFrom(_, _, _, _)
MergeFrom(splits, n, current, docs) ==
    IF n > Len(splits) THEN docs \o Joined(current)
    ELSE LET full == /\ PiecesLen(current) + splits[n].len > chunk_size
                     /\ current # <<>>
         IN  MergeFrom(splits, n + 1,
                       Append(IF full THEN Overlap(current, splits[n].len)
                              ELSE current, splits[n]),
                       IF full THEN docs \o Joined(current) ELSE docs)

merge_splits(splits) == MergeFrom(splits, 1, <<>>, <<>>)

\* RecursiveCharacterTextSplitter._split_text with separators "\n\n", "\n"
\* on a section, which holds no "\n\n": pieces shorter than chunk_size are
\* merged, a longer piece has no separator left to be split at and is a
\* chunk as it is
RECURSIVE SplitFrom(_, _, _, _)
SplitFrom(splits, n, good_splits, final_chunks) ==
    LET merged == IF good_splits = <<>> THEN <<>>
                  ELSE merge_splits(good_splits)
    IN  IF n > Len(splits) THEN final_chunks \o merged
        ELSE IF splits[n].len < chunk_size
        THEN SplitFrom(splits, n + 1, Append(good_splits, splits[n]),
                       final_chunks)
        ELSE SplitFrom(splits, n + 1, <<>>,
                       final_chunks \o merged \o <<splits[n].len>>)

\* text_splitter.split_documents: the chunks of each section in turn, each
\* given by its length
RECURSIVE split_documents(_)
split_documents(sections) ==
    IF sections = <<>> THEN <<>>
    ELSE SplitFrom(SeparatorSplits(Head(sections)), 1, <<>>, <<>>)
            \o split_documents(Tail(sections))

\* a raw chunk text of len characters
Text(len) == [n \in 1..len |-> "a"]

ChunkInit ==
    /\ SyncInit
    /\ QueryInit
    /\ RelocInit
    /\ \E md \in Markdowns :
          call = [fn |-> "process_content", md |-> md, done |-> FALSE,
                  depth |-> 0, md_header_splits |-> <<>>,
                  final_splits |-> <<>>, chunks |-> <<>>]

\* process_content(1, ...) on md_content
ProcessContent ==
    /\ call.fn = "process_content"
    /\ ~call.done
    /\ LET found == HeaderSearch(call.md, 1, 1)
           final_splits == split_documents(found.md_header_splits)
           texts == [n \in DOMAIN final_splits |-> Text(final_splits[n])]
       IN  call' = [call EXCEPT
                      !.done = TRUE,
                      !.depth = found.depth,
                      !.md_header_splits = found.md_header_splits,
                      !.final_splits = final_splits,
                      !.chunks = process_content(1, UserOf(1), texts, 1)]
    /\ UNCHANGED <<sync, note_collection, query, reloc>>

ChunkNext == ProcessContent

ChunkSpec == ChunkInit /\ [][ChunkNext]_vars

\* the depths at which no section is over chunk_size
Fitting(md) == {d \in 1..max_depth : ~AnyOver(split_text(md, d))}

\* ------------------------------------------------------------------------
\* C22: the depth of the header split process_content ends with is the
\* smallest depth d of 1..6 such that the split at the headings of level
\* 1..d leaves no section over the chunk size, measured as the code
\* measures it, and 6 when no depth does; the sections handed to the
\* secondary split are those of the split at that depth.
\* ------------------------------------------------------------------------
C22_SmallestFittingDepth ==
    (call.fn = "process_content" /\ call.done) =>
        /\ call.depth = IF Fitting(call.md) # {} THEN Least(Fitting(call.md))
                        ELSE max_depth
        /\ call.md_header_splits = split_text(call.md, call.depth)
        /\ call.final_splits = split_documents(split_text(call.md, call.depth))

\* the split at level 1 left a section over the chunk size and a deeper
\* one, not the deepest, left none
C22_Witness ==
    /\ call.fn = "process_content"
    /\ call.done
    /\ call.depth \in 2..(max_depth - 1)
    /\ AnyOver(split_text(call.md, 1))
    /\ Len(call.md_header_splits) >= 2

\* ------------------------------------------------------------------------
\* C23: every chunk process_content returns has a raw text of at least 2
\* characters and of at most chunk size plus overlap, 500 + 100, characters.
\* ------------------------------------------------------------------------
C23_ChunkLengthBounds ==
    (call.fn = "process_content" /\ call.done) =>
        \A n \in DOMAIN call.chunks :
            /\ Len(call.chunks[n].text) >= MinChunkLen
            /\ Len(call.chunks[n].text) <= chunk_size + chunk_overlap

====
